---- MODULE Spec2Model ----
(***************************************************************************)
(* A model of favicon.py: the line-oriented parser read_image_file, the    *)
(* neighbour enumerator pixels, the scale computation calc_safe_size and   *)
(* the corner-rounding rasteriser produce_icon.                            *)
(*                                                                         *)
(* Text that the program inspects character by character (the lines of the *)
(* input file, the rows of an image) is a sequence of one-character        *)
(* strings.  Python's None is the empty tuple and an optional value x is   *)
(* the one-element tuple <<x>>.                                            *)
(***************************************************************************)
EXTENDS Integers, Sequences, FiniteSets, TLC

VARIABLES
    lines,      \* read_image_file: the lines the file iterator yields
    ix,         \* read_image_file: number of lines the loop has taken
    state,      \* read_image_file: ParserState
    palette,    \* read_image_file: color -> label
    width,      \* read_image_file: width of the first image row
    data,       \* read_image_file: the image rows read so far
    pc,         \* read_image_file: "loop", "after", "returned", "raised"
    image,      \* read_image_file: the returned Image, if any
    error,      \* read_image_file: the ParsingError raised, if any
    source,     \* produce_icon: the Image to rasterise
    spec,       \* produce_icon: the IconSpec
    scale,      \* produce_icon: f, as returned by calc_safe_size
    ipc,        \* produce_icon: "start", "paint", "saved", "failed", "idle"
    pos,        \* produce_icon: number of pixels taken from pixels(source)
    p,          \* produce_icon: the Pixel taken last, if any
    corner,     \* produce_icon: v1 and v2 of the corner cell taken last, if any
    drawn,      \* produce_icon: what was drawn for each pixel, in order
    failure     \* produce_icon: the exception that ended it, if any

vars == <<lines, ix, state, palette, width, data, pc, image, error,
          source, spec, scale, ipc, pos, p, corner, drawn, failure>>

iconVars == <<source, spec, scale, ipc, pos, p, corner, drawn, failure>>

None == <<>>
Some(x) == <<x>>

Max(a, b) == IF a >= b THEN a ELSE b

(***************************************************************************)
(* Bounds of the model.                                                    *)
(***************************************************************************)
MaxLines == 5
MaxSide == 3          \* sides of the images that are rasterised
MaxScaleSide == 10    \* sides of the images whose scale is computed
MaxSmallFull == 12    \* full sizes 1..MaxSmallFull besides those of ICON_SPECS

(***************************************************************************)
(* Characters.                                                             *)
(***************************************************************************)
\* what str.rstrip() removes
Whitespace == {" ", "\t", "\n"}

\* [ \t] of DEFS_PATTERN
Blank == {" ", "\t"}

\* [\x21-\x7F] of DEFS_PATTERN, among the characters of the model
Printable == {"a", "b", "c", "x"}

\* line.rstrip()
RECURSIVE rstrip(_)
rstrip(line) ==
    IF line = <<>> THEN <<>>
    ELSE IF line[Len(line)] \in Whitespace
         THEN rstrip(SubSeq(line, 1, Len(line) - 1))
         ELSE line

\* The end of the greedy run [ \t]+ that starts at position 2 of line,
\* or 1 when there is no such run.
RECURSIVE BlankRunEnd(_, _)
BlankRunEnd(line, k) ==
    IF k + 1 <= Len(line) /\ line[k + 1] \in Blank
    THEN BlankRunEnd(line, k + 1)
    ELSE k

\* re.match(DEFS_PATTERN, line): ^([\x21-\x7F])[ \t]+(\S.*)$
\* The run [ \t]+ is greedy and \S cannot match a blank, so the only split
\* is the one that gives the whole run to [ \t]+.
DefsMatch(line) ==
    /\ Len(line) >= 3
    /\ line[1] \in Printable
    /\ BlankRunEnd(line, 1) >= 2
    /\ BlankRunEnd(line, 1) < Len(line)
    /\ line[BlankRunEnd(line, 1) + 1] \notin Whitespace
    /\ \A i \in 1..Len(line) : line[i] # "\n"

\* m.group(1)
DefsColor(line) == line[1]

\* m.group(2)
DefsLabel(line) == SubSeq(line, BlankRunEnd(line, 1) + 1, Len(line))

(***************************************************************************)
(* The input files of the model: up to MaxLines lines, each as the file    *)
(* iterator yields it (with its line terminator).                          *)
(***************************************************************************)
LineSet ==
    { <<"\n">>,                         \* an empty line
      <<" ", "\n">>,                    \* a line of whitespace
      <<"a", " ", "x", "\n">>,          \* a definition of color a
      <<"b", "\t", "x", " ", "\n">>,    \* a definition of color b
      <<"a", "\n">>,                    \* a row of width 1
      <<"a", "b", " ", "\n">>,          \* a row of width 2
      <<"c", "\n">> }                   \* neither a definition nor colors

Files == UNION { [1..n -> LineSet] : n \in 0..MaxLines }

(***************************************************************************)
(* read_image_file                                                         *)
(***************************************************************************)
NoImage == None
NoError == None

ParsingError(lineno, line, msg) ==
    [lineno |-> lineno, line |-> line, msg |-> msg]

\* The first px of line that is not in palette (for px in line: ...).
FirstUndefined(line, pal) ==
    line[CHOOSE i \in 1..Len(line) :
            /\ line[i] \notin DOMAIN pal
            /\ \A j \in 1..(i - 1) : line[j] \in DOMAIN pal]

AllDefinedFirstOnly(line, pal) == line[1] \in DOMAIN pal

AllDefined(line, pal) == \A i \in 1..Len(line) : line[i] \in DOMAIN pal

\* The line number a ParsingError carries: ix + 1.
LineNoZeroBased == ix

LineNo == ix + 1

Raise(e) ==
    /\ pc' = "raised"
    /\ error' = Some(e)
    /\ UNCHANGED <<state, palette, width, data, image>>

\* The body of the loop while the state is SEEKING_DEFS or READING_DEFS.
ScanDefs(line) ==
    IF line = <<>>
    THEN /\ state' = IF state = "READING_DEFS" THEN "SEEKING_IMAGE" ELSE state
         /\ UNCHANGED <<palette, width, data, pc, image, error>>
    ELSE IF DefsMatch(line)
    THEN IF DefsColor(line) \in DOMAIN palette
         THEN Raise(ParsingError(Some(LineNo), Some(line),
                    <<"multiple definitions for same color: ", DefsColor(line)>>))
         ELSE /\ palette' = [c \in DOMAIN palette \cup {DefsColor(line)} |->
                                IF c = DefsColor(line) THEN DefsLabel(line)
                                                       ELSE palette[c]]
              /\ state' = IF state = "SEEKING_DEFS" THEN "READING_DEFS" ELSE state
              /\ UNCHANGED <<width, data, pc, image, error>>
    ELSE Raise(ParsingError(Some(LineNo), Some(line), <<"expected definition">>))

ImageBlankLineContinue ==
    UNCHANGED <<pc, state, palette, width, data, image, error>>

\* An empty line while the state is SEEKING_IMAGE or READING_IMAGE:
\* break out of the loop once rows have been read, continue before.
ImageBlankLine ==
    /\ pc' = IF state = "READING_IMAGE" THEN "after" ELSE pc
    /\ UNCHANGED <<state, palette, width, data, image, error>>

\* The body of the loop while the state is SEEKING_IMAGE or READING_IMAGE.
ScanImage(line) ==
    IF line = <<>>
    THEN ImageBlankLine
    ELSE IF ~AllDefined(line, palette)
    THEN Raise(ParsingError(Some(LineNo), Some(line),
               <<"undefined color: $", FirstUndefined(line, palette)>>))
    ELSE IF state = "SEEKING_IMAGE"
    THEN /\ width' = Len(line)
         /\ state' = "READING_IMAGE"
         /\ data' = Append(data, line)
         /\ UNCHANGED <<palette, pc, image, error>>
    ELSE IF Len(line) # width
    THEN Raise(ParsingError(Some(LineNo), Some(line), <<"inconsistent image width">>))
    ELSE /\ data' = Append(data, line)
         /\ UNCHANGED <<state, palette, width, pc, image, error>>

\* One iteration of "for ix, line in enumerate(f)".
ScanLine ==
    /\ pc = "loop"
    /\ ix < Len(lines)
    /\ ix' = ix + 1
    /\ IF state \in {"SEEKING_DEFS", "READING_DEFS"}
       THEN ScanDefs(rstrip(lines[ix + 1]))
       ELSE ScanImage(rstrip(lines[ix + 1]))
    /\ UNCHANGED lines
    /\ UNCHANGED iconVars

\* The iterator is exhausted: the loop ends.
EndOfFile ==
    /\ pc = "loop"
    /\ ix = Len(lines)
    /\ pc' = "after"
    /\ UNCHANGED <<lines, ix, state, palette, width, data, image, error>>
    /\ UNCHANGED iconVars

FinishUnchecked ==
    /\ pc = "after"
    /\ pc' = "returned"
    /\ image' = Some([width |-> width, height |-> Len(data),
                      data |-> data, palette |-> palette])
    /\ UNCHANGED <<lines, ix, state, palette, width, data, error>>
    /\ UNCHANGED iconVars

\* The statements after the loop.
Finish ==
    /\ pc = "after"
    /\ IF state # "READING_IMAGE"
       THEN /\ pc' = "raised"
            /\ error' = Some(ParsingError(None, None, <<"incomplete image">>))
            /\ UNCHANGED image
       ELSE /\ pc' = "returned"
            /\ image' = Some([width |-> width, height |-> Len(data),
                              data |-> data, palette |-> palette])
            /\ UNCHANGED error
    /\ UNCHANGED <<lines, ix, state, palette, width, data>>
    /\ UNCHANGED iconVars

IconIdle ==
    /\ source = None
    /\ spec = None
    /\ scale = None
    /\ ipc = "idle"
    /\ pos = 0
    /\ p = None
    /\ corner = None
    /\ drawn = <<>>
    /\ failure = None

ParserInit ==
    /\ lines \in Files
    /\ ix = 0
    /\ state = "SEEKING_DEFS"
    /\ palette = <<>>
    /\ width = 0
    /\ data = <<>>
    /\ pc = "loop"
    /\ image = NoImage
    /\ error = NoError
    /\ IconIdle

ParserNext == ScanLine \/ EndOfFile \/ Finish

SpecParser == ParserInit /\ [][ParserNext]_vars

(***************************************************************************)
(* IconSpec and ICON_SPECS.  safe_zone_size is a float in the program; all *)
(* its values are tenths, and the model keeps the number of tenths.        *)
(***************************************************************************)
IconSpec(full_size, safe_zone_type, safe_zone_tenths, masking) ==
    [full_size |-> full_size, safe_zone_type |-> safe_zone_type,
     safe_zone_size |-> safe_zone_tenths, masking |-> masking]

ICON_SPECS ==
    [name \in {"mjhn-ios-180.png", "mjhn-ios-167.png", "mjhn-ios-152.png",
               "mjhn-macos-512.png", "mjhn-macos-256.png", "mjhn-macos-128.png",
               "mjhn-full-192.png", "mjhn-full-512.png",
               "mjhn-maskable-192.png", "mjhn-maskable-512.png",
               "mjhn-github-512.png"} |->
        CASE name = "mjhn-ios-180.png" -> IconSpec(180, "RECTANGLE", 8, "NONE")
          [] name = "mjhn-ios-167.png" -> IconSpec(167, "RECTANGLE", 8, "NONE")
          [] name = "mjhn-ios-152.png" -> IconSpec(152, "RECTANGLE", 8, "NONE")
          [] name = "mjhn-macos-512.png" -> IconSpec(512, "RECTANGLE", 8, "MAC_OS")
          [] name = "mjhn-macos-256.png" -> IconSpec(256, "RECTANGLE", 8, "MAC_OS")
          [] name = "mjhn-macos-128.png" -> IconSpec(128, "RECTANGLE", 8, "MAC_OS")
          [] name = "mjhn-full-192.png" -> IconSpec(192, "RECTANGLE", 9, "NONE")
          [] name = "mjhn-full-512.png" -> IconSpec(512, "RECTANGLE", 9, "NONE")
          [] name = "mjhn-maskable-192.png" -> IconSpec(192, "CIRCLE", 8, "NONE")
          [] name = "mjhn-maskable-512.png" -> IconSpec(512, "CIRCLE", 8, "NONE")
          [] name = "mjhn-github-512.png" -> IconSpec(512, "CIRCLE", 10, "NONE")]

APP_ICON_PALETTE ==
    [label \in {"background", "body", "border", "shadow"} |->
        CASE label = "background" -> <<227, 227, 106, 255>>
          [] label = "body" -> <<255, 255, 255, 255>>
          [] label = "border" -> <<0, 0, 0, 255>>
          [] label = "shadow" -> <<15, 31, 63, 255>>]

Orientation1 == "corner rounding (orientation 1)"
Orientation2 == "corner rounding (orientation 2)"

(***************************************************************************)
(* calc_safe_size                                                          *)
(***************************************************************************)
\* int(num / den) in place of round(num / den)
RoundDown(num, den) == num \div den

\* round(num / den) for num >= 0 and den > 0: Python rounds to the nearest
\* integer and a tie to the even one.  full_size * safe_zone_size is a float
\* product; for the sizes of the model it is the nearest float to the exact
\* product, which is a tie exactly when the exact product is.
Round(num, den) ==
    LET q == num \div den
        r == num % den
    IN  IF 2 * r < den THEN q
        ELSE IF 2 * r > den THEN q + 1
        ELSE IF q % 2 = 0 THEN q ELSE q + 1

\* math.floor(m / s) with m = full_size * safe_zone_size (mTenths tenths) and
\* s = math.sqrt(1 + (h / w) ** 2) * w: the largest k with
\* k * sqrt(w^2 + h^2) <= mTenths / 10, which is at most mTenths / (10 * max(w, h)).
\* For the sizes of the model the float expression has exactly this value.
CircleFloor(mTenths, w, h) ==
    CHOOSE k \in 0..(mTenths \div (10 * Max(w, h))) :
        /\ 100 * k * k * (w * w + h * h) <= mTenths * mTenths
        /\ 100 * (k + 1) * (k + 1) * (w * w + h * h) > mTenths * mTenths

\* The value calc_safe_size returns, or the assertion that fails.
calc_safe_size(src, sp) ==
    IF sp.safe_zone_type = "RECTANGLE"
    THEN LET s == Max(src.width, src.height)
             m == Round(sp.full_size * sp.safe_zone_size, 10)
             f == m \div s
         IN  IF s <= m
             THEN [ok |-> TRUE, value |-> <<f, f * src.width, f * src.height>>]
             ELSE [ok |-> FALSE, value |-> <<"AssertionError", "no can do">>]
    ELSE LET f == CircleFloor(sp.full_size * sp.safe_zone_size, src.width, src.height)
         IN  [ok |-> TRUE, value |-> <<f, f * src.width, f * src.height>>]

(***************************************************************************)
(* pixels                                                                  *)
(***************************************************************************)
Pixel(x, y, v, n, s, e, w) ==
    [x |-> x, y |-> y, v |-> v, n |-> n, s |-> s, e |-> e, w |-> w]

\* [source.palette[value] for row in source.data for value in row]
RECURSIVE Buffer(_, _)
Buffer(rows, pal) ==
    IF rows = <<>> THEN <<>>
    ELSE [i \in 1..Len(rows[1]) |-> pal[rows[1][i]]] \o Buffer(Tail(rows), pal)

\* buffer[i], with Python's indexing: from 0, and from the end when i < 0.
Item(buffer, i) == IF i >= 0 THEN buffer[i + 1] ELSE buffer[Len(buffer) + i + 1]

\* pixels with "if ix > 0" for w and "if ix < len(buffer) - 1" for e
PixelAtFlat(src, x, y) ==
    LET buffer == Buffer(src.data, src.palette)
        i == y * src.width + x
    IN  Pixel(x, y, Item(buffer, i),
              IF y > 0 THEN Some(Item(buffer, i - src.width)) ELSE None,
              IF y < src.height - 1 THEN Some(Item(buffer, i + src.width)) ELSE None,
              IF i < Len(buffer) - 1 THEN Some(Item(buffer, i + 1)) ELSE None,
              IF i > 0 THEN Some(Item(buffer, i - 1)) ELSE None)

\* The Pixel that pixels(source) yields for (x, y).
PixelAt(src, x, y) ==
    LET buffer == Buffer(src.data, src.palette)
        i == y * src.width + x
    IN  Pixel(x, y, Item(buffer, i),
              IF y > 0 THEN Some(Item(buffer, i - src.width)) ELSE None,
              IF y < src.height - 1 THEN Some(Item(buffer, i + src.width)) ELSE None,
              IF x < src.width - 1 THEN Some(Item(buffer, i + 1)) ELSE None,
              IF x > 0 THEN Some(Item(buffer, i - 1)) ELSE None)

\* The k-th Pixel (from 0) of pixels(source): y is the outer loop, x the inner.
NthPixel(src, k) == PixelAt(src, k % src.width, k \div src.width)

(***************************************************************************)
(* produce_icon                                                            *)
(***************************************************************************)
\* tuple(np.add(x, y) // 2)
tuple_avg(x, y) == [i \in 1..Len(x) |-> (x[i] + y[i]) \div 2]

\* type(v) is tuple: an indeterminate pair is <<a, b>>, a neighbour is None
\* or <<label>>.
IsTuple(v) == Len(v) = 2

\* The if-chain that infers a flanking value from the neighbours a and b.
Infer(a, b) ==
    IF a = None /\ b # None THEN b
    ELSE IF a # None /\ b = None THEN a
    ELSE IF a = b THEN a
    ELSE <<a, b>>

\* t[0] if t[0] == other else t[1]
EliminateSame(t, other) == IF t[1] = other THEN t[1] ELSE t[2]

\* t[0] if t[0] != other else t[1]
Eliminate(t, other) == IF t[1] # other THEN t[1] ELSE t[2]

\* type(v1) is tuple or type(v2) is tuple
AmbiguousEither(v1, v2) == IsTuple(v1) \/ IsTuple(v2)

\* type(v1) is tuple and type(v2) is tuple
Ambiguous(v1, v2) == IsTuple(v1) /\ IsTuple(v2)

\* v1 and v2 after the elimination, for v1 and v2 not both indeterminate.
Resolved(v1, v2) ==
    IF IsTuple(v1) THEN [v1 |-> Eliminate(v1, v2), v2 |-> v2]
    ELSE IF IsTuple(v2) THEN [v1 |-> v1, v2 |-> Eliminate(v2, v1)]
    ELSE [v1 |-> v1, v2 |-> v2]

\* APP_ICON_PALETTE.get(v) is found (every color is a non-empty tuple)
HasColor(v) == v # None /\ v[1] \in DOMAIN APP_ICON_PALETTE

Fail(e) ==
    /\ ipc' = "failed"
    /\ failure' = Some(e)
    /\ UNCHANGED drawn

Draw(ops) ==
    /\ drawn' = drawn \o ops
    /\ UNCHANGED <<ipc, failure>>

\* The three drawing calls of a corner cell of label v, for the corners
\* pts = <<p1, p2, p3, p4>> of its square.
CornerOps(v, pts, c1, c2, c3) ==
    IF v = Orientation1
    THEN << <<"rectangle", <<pts[1], pts[3]>>, c2>>,
            <<"polygon", <<pts[1], pts[2], pts[3]>>, c1>>,
            <<"line", <<pts[1], pts[3]>>, c3>> >>
    ELSE << <<"rectangle", <<pts[1], pts[3]>>, c1>>,
            <<"polygon", <<pts[3], pts[4], pts[2]>>, c2>>,
            <<"line", <<pts[4], pts[2]>>, c3>> >>

\* A corner cell: v1 and v2 as inferred, then the elimination, the two
\* color lookups and the three drawing calls.
PaintCorner(px, v1, v2, pts) ==
    IF Ambiguous(v1, v2)
    THEN /\ corner' = Some([v1 |-> v1, v2 |-> v2])
         /\ Fail(<<"Exception", "cannot determine corner rounding", px>>)
    ELSE LET r == Resolved(v1, v2)
         IN  /\ corner' = Some(r)
             /\ IF ~HasColor(r.v1) THEN Fail(<<"KeyError", r.v1>>)
                ELSE IF ~HasColor(r.v2) THEN Fail(<<"KeyError", r.v2>>)
                ELSE Draw(CornerOps(px.v, pts,
                                    APP_ICON_PALETTE[r.v1[1]], APP_ICON_PALETTE[r.v2[1]],
                                    tuple_avg(APP_ICON_PALETTE[r.v1[1]],
                                              APP_ICON_PALETTE[r.v2[1]])))

\* f, sz_x, sz_y = calc_safe_size(source, spec)
CalcSafeSize ==
    /\ ipc = "start"
    /\ LET r == calc_safe_size(source, spec)
       IN  IF r.ok
           THEN /\ scale' = Some(r.value)
                /\ ipc' = "paint"
                /\ UNCHANGED failure
           ELSE /\ failure' = Some(r.value)
                /\ ipc' = "failed"
                /\ UNCHANGED scale
    /\ UNCHANGED <<source, spec, pos, p, corner, drawn>>
    /\ UNCHANGED <<lines, ix, state, palette, width, data, pc, image, error>>

\* One iteration of "for p in pixels(source)".
PaintPixel ==
    /\ ipc = "paint"
    /\ pos < source.width * source.height
    /\ LET px == NthPixel(source, pos)
           f == scale[1][1]
           x == (spec.full_size - scale[1][2]) \div 2 + f * px.x
           y == (spec.full_size - scale[1][3]) \div 2 + f * px.y
           p1 == <<x, y>>
           p2 == <<x + f - 1, y>>
           p3 == <<x + f - 1, y + f - 1>>
           p4 == <<x, y + f - 1>>
       IN  /\ p' = Some(px)
           /\ pos' = pos + 1
           /\ IF px.v \in DOMAIN APP_ICON_PALETTE
              THEN /\ Draw(<< <<"rectangle", <<p1, p3>>, APP_ICON_PALETTE[px.v]>> >>)
                   /\ corner' = None
              ELSE IF px.v = Orientation1
              THEN PaintCorner(px, Infer(px.n, px.e), Infer(px.s, px.w),
                               <<p1, p2, p3, p4>>)
              ELSE IF px.v = Orientation2
              THEN PaintCorner(px, Infer(px.n, px.w), Infer(px.s, px.e),
                               <<p1, p2, p3, p4>>)
              ELSE /\ Fail(<<"Exception", "unhandle", px.v>>)
                   /\ corner' = None
    /\ UNCHANGED <<source, spec, scale>>
    /\ UNCHANGED <<lines, ix, state, palette, width, data, pc, image, error>>

\* target.save(...), once pixels(source) is exhausted.
Save ==
    /\ ipc = "paint"
    /\ pos = source.width * source.height
    /\ ipc' = "saved"
    /\ UNCHANGED <<source, spec, scale, pos, p, corner, drawn, failure>>
    /\ UNCHANGED <<lines, ix, state, palette, width, data, pc, image, error>>

ParserIdle ==
    /\ lines = <<>>
    /\ ix = 0
    /\ state = "SEEKING_DEFS"
    /\ palette = <<>>
    /\ width = 0
    /\ data = <<>>
    /\ pc = "idle"
    /\ image = NoImage
    /\ error = NoError

(***************************************************************************)
(* The images that are rasterised: every image of sides up to MaxSide that *)
(* is background but for one cell and its four neighbours.                 *)
(***************************************************************************)
SourcePalette ==
    [c \in {".", "#", "b", "/", "\\", "?"} |->
        CASE c = "." -> "background"
          [] c = "#" -> "body"
          [] c = "b" -> "border"
          [] c = "/" -> Orientation1
          [] c = "\\" -> Orientation2
          [] c = "?" -> "glow"]

CellColors == {"/", "\\", "?"}
NeighbourColors == {".", "#", "b", "/"}

CrossImage(w, h, fx, fy, c, arms) ==
    [width |-> w, height |-> h, palette |-> SourcePalette,
     data |-> [y \in 1..h |-> [x \in 1..w |->
                 IF x = fx /\ y = fy THEN c
                 ELSE IF x = fx /\ y = fy - 1 THEN arms.n
                 ELSE IF x = fx /\ y = fy + 1 THEN arms.s
                 ELSE IF x = fx + 1 /\ y = fy THEN arms.e
                 ELSE IF x = fx - 1 /\ y = fy THEN arms.w
                 ELSE "."]]]

Sources ==
    { CrossImage(w, h, fx, fy, c, arms) :
        w \in 1..MaxSide, h \in 1..MaxSide, fx \in 1..MaxSide, fy \in 1..MaxSide,
        c \in CellColors, arms \in [{"n", "s", "e", "w"} -> NeighbourColors] }

\* One spec of ICON_SPECS for each safe zone type and size.
RasterisedSpecs ==
    {"mjhn-ios-180.png", "mjhn-full-192.png", "mjhn-maskable-192.png",
     "mjhn-github-512.png"}

IconInit ==
    /\ source \in Sources
    /\ spec \in { ICON_SPECS[n] : n \in RasterisedSpecs }
    /\ scale = None
    /\ ipc = "start"
    /\ pos = 0
    /\ p = None
    /\ corner = None
    /\ drawn = <<>>
    /\ failure = None
    /\ ParserIdle

IconNext == CalcSafeSize \/ PaintPixel \/ Save

SpecIcon == IconInit /\ [][IconNext]_vars

(***************************************************************************)
(* The inputs of calc_safe_size: background images of sides up to          *)
(* MaxScaleSide, and specs of the full sizes of ICON_SPECS and of          *)
(* 1..MaxSmallFull, of both safe zone types, of 0.8, 0.9 and 1.            *)
(***************************************************************************)
BackgroundImage(w, h) ==
    [width |-> w, height |-> h, palette |-> SourcePalette,
     data |-> [y \in 1..h |-> [x \in 1..w |-> "."]]]

FullSizes == { ICON_SPECS[n].full_size : n \in DOMAIN ICON_SPECS } \cup 1..MaxSmallFull

ScaleInit ==
    /\ source \in { BackgroundImage(w, h) : w \in 1..MaxScaleSide, h \in 1..MaxScaleSide }
    /\ spec \in { IconSpec(fs, t, z, "NONE") :
                    fs \in FullSizes, t \in {"RECTANGLE", "CIRCLE"}, z \in {8, 9, 10} }
    /\ scale = None
    /\ ipc = "start"
    /\ pos = 0
    /\ p = None
    /\ corner = None
    /\ drawn = <<>>
    /\ failure = None
    /\ ParserIdle

ScaleNext == CalcSafeSize

SpecScale == ScaleInit /\ [][ScaleNext]_vars


(***************************************************************************)
(* Claims about read_image_file.                                           *)
(***************************************************************************)
StrippedLine(k) == rstrip(lines[k])

Rejected == pc = "raised" /\ error # NoError /\ error[1].lineno # None

Incomplete == ParsingError(None, None, <<"incomplete image">>)

\* C1: an Image that read_image_file returns has width > 0 and height > 0,
\* its height is the number of its rows, every row is width characters long,
\* and every character of every row is a key of its palette.
C1_ReturnedImageWellFormed ==
    pc = "returned" =>
        /\ image # NoImage
        /\ image[1].width > 0
        /\ image[1].height > 0
        /\ image[1].height = Len(image[1].data)
        /\ \A y \in 1..Len(image[1].data) :
              /\ Len(image[1].data[y]) = image[1].width
              /\ \A x \in 1..Len(image[1].data[y]) :
                    image[1].data[y][x] \in DOMAIN image[1].palette

\* A returned image of two rows of two colors each.
C1_Witness ==
    /\ pc = "returned"
    /\ image[1].width = 2
    /\ image[1].height = 2
    /\ Cardinality(DOMAIN image[1].palette) = 2

\* C2: once a row has been read, the first line that is empty after
\* stripping ends the scan: whenever the last line taken is such a line, the
\* loop has been left without an error, the rows are exactly the lines that
\* precede it, and the returned image holds exactly these rows, whatever
\* follows that line in the file.
C2_BlankLineEndsScan ==
    (data # <<>> /\ ix >= 1 /\ StrippedLine(ix) = <<>>) =>
        /\ pc \in {"after", "returned"}
        /\ error = NoError
        /\ Len(data) <= ix - 1
        /\ data = [j \in 1..Len(data) |-> StrippedLine(ix - 1 - Len(data) + j)]
        /\ pc = "returned" => image[1].data = data /\ image[1].height = Len(data)

\* An image was returned although a line that no state accepts (neither a
\* definition nor made of defined colors) follows the terminating line.
C2_Witness ==
    /\ pc = "returned"
    /\ ix < Len(lines)
    /\ StrippedLine(ix) = <<>>
    /\ StrippedLine(ix + 1) = <<"c">>

\* C3: when the scan ends without a line-specific error in a state other than
\* READING_IMAGE, read_image_file raises "incomplete image" with neither a
\* line number nor a line text, and returns no Image.
C3_IncompleteImage ==
    /\ (pc = "after" /\ state # "READING_IMAGE") => (image = NoImage /\ error = NoError)
    /\ (pc \in {"returned", "raised"} /\ ~Rejected /\ state # "READING_IMAGE") =>
          (pc = "raised" /\ error = Some(Incomplete) /\ image = NoImage)

\* Definitions followed only by empty lines: "incomplete image".
C3_Witness ==
    /\ pc = "raised"
    /\ error = Some(Incomplete)
    /\ state = "SEEKING_IMAGE"
    /\ Len(lines) >= 2

\* The lines up to the k-th that define color c.
DefinitionsOf(c, k) ==
    { j \in 1..k : DefsMatch(StrippedLine(j)) /\ DefsColor(StrippedLine(j)) = c }

\* C4: a ParsingError that rejects a line carries the 1-based number of that
\* line, which is the last line taken, and its stripped text; a second
\* definition of a color in the definitions block is rejected as a multiple
\* definition at its own line; a row with a character that is not in the
\* palette is rejected as an undefined color at its own line.
C4_ErrorCitesRejectedLine ==
    /\ Rejected =>
          /\ ix \in 1..Len(lines)
          /\ error[1].lineno = Some(ix)
          /\ error[1].line = Some(StrippedLine(ix))
          /\ error[1].msg[1] \in {"expected definition",
                                  "multiple definitions for same color: ",
                                  "undefined color: $",
                                  "inconsistent image width"}
          /\ image = NoImage
    /\ (/\ ix >= 1
        /\ state \in {"SEEKING_DEFS", "READING_DEFS"}
        /\ DefsMatch(StrippedLine(ix))
        /\ DefinitionsOf(DefsColor(StrippedLine(ix)), ix - 1) # {}) =>
          /\ pc = "raised"
          /\ error = Some(ParsingError(Some(ix), Some(StrippedLine(ix)),
                 <<"multiple definitions for same color: ", DefsColor(StrippedLine(ix))>>))
          /\ Cardinality(DefinitionsOf(DefsColor(StrippedLine(ix)), ix)) = 2
    /\ (/\ ix >= 1
        /\ state \in {"SEEKING_IMAGE", "READING_IMAGE"}
        /\ StrippedLine(ix) # <<>>
        /\ ~AllDefined(StrippedLine(ix), palette)) =>
          /\ pc = "raised"
          /\ error[1].lineno = Some(ix)
          /\ error[1].line = Some(StrippedLine(ix))
          /\ error[1].msg[1] = "undefined color: $"
          /\ error[1].msg[2] \notin DOMAIN palette

\* A color defined on line 1 and again on line 3, with an empty line taken
\* before the first definition.
C4_Witness ==
    /\ Rejected
    /\ error[1].msg[1] = "multiple definitions for same color: "
    /\ error[1].lineno = Some(3)
    /\ StrippedLine(1) = <<>>

(***************************************************************************)
(* Claims about pixels and produce_icon.                                   *)
(***************************************************************************)
\* The label of the cell x, y (from 0) of the source, read from its rows.
LabelAt(x, y) == source.palette[source.data[y + 1][x + 1]]

CornerLabels == {Orientation1, Orientation2}

\* The pair of neighbours that flanks v1, and the pair that flanks v2.
Pair1(px) == IF px.v = Orientation1 THEN <<px.n, px.e>> ELSE <<px.n, px.w>>
Pair2(px) == IF px.v = Orientation1 THEN <<px.s, px.w>> ELSE <<px.s, px.e>>

BothPresent(pair) == pair[1] # None /\ pair[2] # None
OneAbsent(pair) == (pair[1] = None) # (pair[2] = None)
Indeterminate(pair) == BothPresent(pair) /\ pair[1] # pair[2]

AmbiguityRaised ==
    /\ ipc = "failed"
    /\ failure # None
    /\ failure[1][1] = "Exception"
    /\ failure[1][2] = "cannot determine corner rounding"

\* C5: the Pixel taken last is the one of column x and row y in row-major
\* order; v is the label of data[y][x]; n, s, w, e are present iff y > 0,
\* y < height - 1, x > 0, x < width - 1, and are then the labels of the
\* cells above, below, left and right.
C5_PixelNeighbours ==
    p # None =>
        LET x == p[1].x
            y == p[1].y
        IN  /\ x = (pos - 1) % source.width
            /\ y = (pos - 1) \div source.width
            /\ p[1].v = LabelAt(x, y)
            /\ p[1].n = IF y > 0 THEN Some(LabelAt(x, y - 1)) ELSE None
            /\ p[1].s = IF y < source.height - 1 THEN Some(LabelAt(x, y + 1)) ELSE None
            /\ p[1].w = IF x > 0 THEN Some(LabelAt(x - 1, y)) ELSE None
            /\ p[1].e = IF x < source.width - 1 THEN Some(LabelAt(x + 1, y)) ELSE None

\* The first pixel of the second row of an image three wide, whose left
\* neighbour is absent although the cell before it in the buffer is not
\* background.
C5_Witness ==
    /\ p # None
    /\ source.width = 3
    /\ p[1].x = 0
    /\ p[1].y = 1
    /\ p[1].w = None
    /\ LabelAt(2, 0) # "background"
    /\ p[1].n # None /\ p[1].s # None /\ p[1].e # None

\* What the claim gives for one flanking pair, the other pair being other
\* and its value otherValue.
PairRule(pair, value, other, otherValue) ==
    /\ OneAbsent(pair) =>
          value = (IF pair[1] = None THEN pair[2] ELSE pair[1])
    /\ (BothPresent(pair) /\ pair[1] = pair[2]) => value = pair[1]
    /\ (Indeterminate(pair) /\ ~Indeterminate(other)) =>
          /\ value \in {pair[1], pair[2]}
          /\ value # otherValue
          /\ (pair[1] = otherValue) => value = pair[2]
          /\ (pair[2] = otherValue) => value = pair[1]

\* C6: for a corner cell of either orientation that is not ambiguous, each
\* flanking pair resolves to the present neighbour when exactly one is
\* absent, to the common value when both are present and equal, and, when
\* both are present and differ while the other pair is determinate, to the
\* element of the pair that differs from the other pair's value.
C6_CornerInference ==
    (p # None /\ p[1].v \in CornerLabels /\ corner # None /\ ~AmbiguityRaised) =>
        /\ PairRule(Pair1(p[1]), corner[1].v1, Pair2(p[1]), corner[1].v2)
        /\ PairRule(Pair2(p[1]), corner[1].v2, Pair1(p[1]), corner[1].v1)

\* An orientation 1 cell with n # e and s = w = n: v2 is the matching value
\* and v1 is e, the element of (n, e) that differs from it; the cell is drawn.
C6_Witness ==
    /\ p # None /\ corner # None
    /\ p[1].v = Orientation1
    /\ Indeterminate(<<p[1].n, p[1].e>>)
    /\ p[1].s = p[1].w /\ p[1].s # None
    /\ p[1].n = p[1].s
    /\ corner[1].v2 = p[1].s
    /\ corner[1].v1 = p[1].e
    /\ ipc = "paint"
    /\ Len(drawn) >= 3

\* C7: for a corner cell of either orientation, "cannot determine corner
\* rounding" is raised exactly when both flanking pairs have both neighbours
\* present with different labels.
C7_AmbiguityExactly ==
    (p # None /\ p[1].v \in CornerLabels) =>
        (AmbiguityRaised <=> (Indeterminate(Pair1(p[1])) /\ Indeterminate(Pair2(p[1]))))

\* The error raised for an orientation 2 cell.
C7_Witness ==
    /\ p # None
    /\ p[1].v = Orientation2
    /\ AmbiguityRaised
    /\ failure[1][3] = p[1]

Neighbours(px) == {px.n, px.s, px.e, px.w} \ {None}

\* C10: for a corner cell that is not ambiguous, v1 and v2 are labels of
\* present neighbours of the cell, never the absent value, and no color is
\* looked up with an absent key.
C10_NeverAbsent ==
    (p # None /\ p[1].v \in CornerLabels /\ corner # None /\ ~AmbiguityRaised) =>
        /\ corner[1].v1 \in Neighbours(p[1])
        /\ corner[1].v2 \in Neighbours(p[1])
        /\ ~(ipc = "failed" /\ failure[1] = <<"KeyError", None>>)

(***************************************************************************)
(* Claims about calc_safe_size.                                            *)
(***************************************************************************)
Returned == ipc = "paint" /\ scale # None

LargerSide == Max(source.width, source.height)

\* m is full_size * safe_zone_size rounded to the nearest integer, a tie to
\* the even one.
NearestInteger(m) ==
    LET d == 10 * m - spec.full_size * spec.safe_zone_size
    IN  \/ -5 < d /\ d < 5
        \/ d \in {-5, 5} /\ m % 2 = 0

\* C8 as stated: in rectangular mode the scale f returned is the largest
\* integer with max(width, height) * f <= full_size * safe_zone_size.
C8_LargestWithinSafeZone ==
    (Returned /\ spec.safe_zone_type = "RECTANGLE") =>
        /\ 10 * LargerSide * scale[1][1] <= spec.full_size * spec.safe_zone_size
        /\ 10 * LargerSide * (scale[1][1] + 1) > spec.full_size * spec.safe_zone_size

\* C8 as amended: in rectangular mode the scale f returned is the largest
\* integer with max(width, height) * f <= round(full_size * safe_zone_size);
\* a 10x10 source with full_size 180 and safe_zone_size 0.8 yields 14.
C8_LargestWithinRoundedSafeZone ==
    (Returned /\ spec.safe_zone_type = "RECTANGLE") =>
        /\ \E m \in 0..spec.full_size :
              /\ NearestInteger(m)
              /\ LargerSide * scale[1][1] <= m
              /\ LargerSide * (scale[1][1] + 1) > m
        /\ scale[1][2] = scale[1][1] * source.width
        /\ scale[1][3] = scale[1][1] * source.height
        /\ (source.width = 10 /\ source.height = 10 /\ spec.full_size = 180
              /\ spec.safe_zone_size = 8) => scale[1][1] = 14

\* A side of 2 with full_size 167 and safe_zone_size 0.8: the scale is 67,
\* and 2 * 67 = 134 exceeds 133.6.
C8_Witness ==
    /\ Returned
    /\ spec.safe_zone_type = "RECTANGLE"
    /\ spec.full_size = 167 /\ spec.safe_zone_size = 8
    /\ LargerSide = 2
    /\ scale[1][1] = 67

\* C9: in both modes every scale that calc_safe_size returns is at least 1.
C9_ScaleAtLeastOne ==
    Returned => scale[1][1] >= 1

====
